---- MODULE Spec2Model ----
(***************************************************************************)
(* Model of may_minihttp's request decoding and bounded body reading       *)
(* (src/src/request.rs): decode, Request::body, Request::content_length,   *)
(* BodyReader::read / fill_buf / consume / drop, on one connection whose   *)
(* Shared Buffer (req_buf) and stream are reused across requests.          *)
(*                                                                         *)
(* Bytes are ASCII codes.  The peer's byte sequence is `wire`; the first   *)
(* `spos` bytes of it have been read from the stream, the first `cursor`   *)
(* bytes have been advanced over in req_buf, and req_buf holds the pending *)
(* bytes in between.                                                       *)
(***************************************************************************)
EXTENDS Integers, Sequences, FiniteSets, TLC

\* ------------------------------------------------------------------ bounds
\* largest amount a caller passes to consume (the largest body has 5 bytes)
MaxAmt == 6
\* stream reads of the connection loop that are counted between two requests
MaxChunks == 2
\* decode results of "incomplete" that are counted between two requests
MaxPartials == 2

\* ------------------------------------------------------- program constants
MAX_HEADERS == 16

\* --------------------------------------------------------------- the wires
\* "GET /hello HTTP/1.1\r\nHost: x\r\nContent-Length: 5\r\n\r\nhello"
HelloWire == <<71,69,84,32,47,104,101,108,108,111,32,72,84,84,80,47,49,46,49,13,10,72,111,115,116,58,32,120,13,10,67,111,110,116,101,110,116,45,76,101,110,103,116,104,58,32,53,13,10,13,10,104,101,108,108,111>>
\* "GET / HTTP/1.0\n\n"
NextReq == <<71,69,84,32,47,32,72,84,84,80,47,49,46,48,10,10>>
\* "PUT /a HTTP/1.1\r\nContent-Lengt:9\r\ncontent-length:2\r\nCONTENT-LENGTH: 3\r\n\r\nabc"
DupWire == <<80,85,84,32,47,97,32,72,84,84,80,47,49,46,49,13,10,67,111,110,116,101,110,116,45,76,101,110,103,116,58,57,13,10,99,111,110,116,101,110,116,45,108,101,110,103,116,104,58,50,13,10,67,79,78,84,69,78,84,45,76,69,78,71,84,72,58,32,51,13,10,13,10,97,98,99>>
\* "POST /t HTTP/1.1\r\nContent-length: 4\r\n\r\nab"   (body cut short)
TruncWire == <<80,79,83,84,32,47,116,32,72,84,84,80,47,49,46,49,13,10,67,111,110,116,101,110,116,45,108,101,110,103,116,104,58,32,52,13,10,13,10,97,98>>
\* "GET / HTTP/1.1\r\nHo st: x\r\n\r\n"   (space inside a header name)
BadWire == <<71,69,84,32,47,32,72,84,84,80,47,49,46,49,13,10,72,111,32,115,116,58,32,120,13,10,13,10>>
\* "PUT /b HTTP/1.1\r\nContent-Length: 1x\r\n\r\nz"
BadLenWire == <<80,85,84,32,47,98,32,72,84,84,80,47,49,46,49,13,10,67,111,110,116,101,110,116,45,76,101,110,103,116,104,58,32,49,120,13,10,13,10,122>>
\* "PUT /p HTTP/1.1\r\nContent-Length: +1\r\n\r\nq"
PlusWire == <<80,85,84,32,47,112,32,72,84,84,80,47,49,46,49,13,10,67,111,110,116,101,110,116,45,76,101,110,103,116,104,58,32,43,49,13,10,13,10,113>>

\* what the peer may send on one connection
Wires ==
  { HelloWire \o NextReq,
    NextReq \o NextReq,
    DupWire \o NextReq,
    TruncWire,
    BadWire,
    BadLenWire,
    PlusWire }

\* ------------------------------------------------------------ byte helpers
Min(a, b) == IF a <= b THEN a ELSE b

Take(s, n) == SubSeq(s, 1, n)

Drop(s, n) == SubSeq(s, n + 1, Len(s))

SP == 32
HT == 9
CR == 13
LF == 10
COLON == 58

\* u8::to_ascii_lowercase
to_ascii_lowercase(c) == IF c >= 65 /\ c <= 90 THEN c + 32 ELSE c

\* str::eq_ignore_ascii_case
eq_ignore_ascii_case(a, b) ==
  /\ Len(a) = Len(b)
  /\ \A i \in 1..Len(a) : to_ascii_lowercase(a[i]) = to_ascii_lowercase(b[i])

\* "content-length"
CONTENT_LENGTH == <<99,111,110,116,101,110,116,45,108,101,110,103,116,104>>

\* --------------------------------------------------- the Header Parser
\* httparse's grammar, as far as the wires exercise it: token characters of
\* a method or a header name, characters of a request target, characters of
\* a header value.
TokenChars ==
  (48..57) \cup (65..90) \cup (97..122) \cup
  {33, 35, 36, 37, 38, 39, 42, 43, 45, 46, 94, 95, 96, 124, 126}

UriChars == 33..126

ValueChars == {HT} \cup (32..126)

\* "HTTP/1."
HTTP1 == <<72,84,84,80,47,49,46>>

\* scan b from index i while the bytes are in `ok`, up to the byte `stop`:
\* [st |-> "ok", i |-> index of stop] | "partial" | "error"
RECURSIVE scan_until(_, _, _, _)
scan_until(b, i, ok, stop) ==
  IF i > Len(b) THEN [st |-> "partial", i |-> i]
  ELSE IF b[i] \in stop THEN [st |-> "ok", i |-> i]
  ELSE IF b[i] \in ok THEN scan_until(b, i + 1, ok, stop)
  ELSE [st |-> "error", i |-> i]

\* a line end at index i: "\r\n" or a bare "\n"
newline(b, i) ==
  IF i > Len(b) THEN [st |-> "partial", i |-> i]
  ELSE IF b[i] = LF THEN [st |-> "ok", i |-> i + 1]
  ELSE IF b[i] = CR THEN
         IF i + 1 > Len(b) THEN [st |-> "partial", i |-> i]
         ELSE IF b[i + 1] = LF THEN [st |-> "ok", i |-> i + 2]
         ELSE [st |-> "error", i |-> i]
  ELSE [st |-> "error", i |-> i]

\* "HTTP/1.0" or "HTTP/1.1" at index i, byte by byte
RECURSIVE parse_version(_, _, _)
parse_version(b, i, k) ==
  IF i + k > Len(b) THEN [st |-> "partial", i |-> i, version |-> 0]
  ELSE IF k < 7 THEN
         IF b[i + k] = HTTP1[k + 1] THEN parse_version(b, i, k + 1)
         ELSE [st |-> "error", i |-> i, version |-> 0]
  ELSE IF b[i + 7] = 48 THEN [st |-> "ok", i |-> i + 8, version |-> 0]
  ELSE IF b[i + 7] = 49 THEN [st |-> "ok", i |-> i + 8, version |-> 1]
  ELSE [st |-> "error", i |-> i, version |-> 0]

RECURSIVE skip_spaces(_, _)
skip_spaces(b, i) ==
  IF i <= Len(b) /\ b[i] \in {SP, HT} THEN skip_spaces(b, i + 1) ELSE i

\* the header lines from index i, hs the headers parsed so far
RECURSIVE parse_headers(_, _, _)
parse_headers(b, i, hs) ==
  IF i > Len(b) THEN [st |-> "partial", i |-> i, headers |-> hs]
  ELSE IF b[i] \in {CR, LF} THEN
         LET nl == newline(b, i) IN [st |-> nl.st, i |-> nl.i, headers |-> hs]
  ELSE IF Len(hs) = MAX_HEADERS THEN [st |-> "error", i |-> i, headers |-> hs]
  ELSE LET nm == scan_until(b, i, TokenChars, {COLON}) IN
       IF nm.st # "ok" \/ nm.i = i THEN
            [st |-> IF nm.st = "partial" THEN "partial" ELSE "error",
             i |-> i, headers |-> hs]
       ELSE LET v0 == skip_spaces(b, nm.i + 1)
                vl == scan_until(b, v0, ValueChars, {CR, LF})
                nl == newline(b, vl.i)
            IN IF vl.st # "ok" THEN [st |-> vl.st, i |-> i, headers |-> hs]
               ELSE IF nl.st # "ok" THEN [st |-> nl.st, i |-> i, headers |-> hs]
               ELSE parse_headers(b, nl.i,
                      Append(hs, [name |-> SubSeq(b, i, nm.i - 1),
                                  value |-> SubSeq(b, v0, vl.i - 1)]))

NoReq == [method |-> <<>>, path |-> <<>>, version |-> 0, headers |-> <<>>]

Partial == [st |-> "Partial", amt |-> 0, req |-> NoReq]

ParseError == [st |-> "Error", amt |-> 0, req |-> NoReq]

Settle(st) == IF st = "partial" THEN Partial ELSE ParseError

RECURSIVE skip_empty_lines(_, _)
skip_empty_lines(b, i) ==
  IF i <= Len(b) /\ b[i] \in {CR, LF} THEN
       LET nl == newline(b, i) IN
       IF nl.st = "ok" THEN skip_empty_lines(b, nl.i) ELSE [st |-> nl.st, i |-> i]
  ELSE IF i > Len(b) THEN [st |-> "partial", i |-> i]
  ELSE [st |-> "ok", i |-> i]

\* httparse::Request::parse_with_uninit_headers on the pending bytes b:
\* Partial | Complete(amt) with method, path, version, headers | Error
parse_with_uninit_headers(b) ==
  LET s0 == skip_empty_lines(b, 1) IN
  IF s0.st # "ok" THEN Settle(s0.st) ELSE
  LET m == scan_until(b, s0.i, TokenChars, {SP}) IN
  IF m.st # "ok" THEN Settle(m.st) ELSE
  IF m.i = s0.i THEN ParseError ELSE
  LET p == scan_until(b, m.i + 1, UriChars, {SP}) IN
  IF p.st # "ok" THEN Settle(p.st) ELSE
  IF p.i = m.i + 1 THEN ParseError ELSE
  LET v == parse_version(b, p.i + 1, 0) IN
  IF v.st # "ok" THEN Settle(v.st) ELSE
  LET nl == newline(b, v.i) IN
  IF nl.st # "ok" THEN Settle(nl.st) ELSE
  LET h == parse_headers(b, nl.i, <<>>) IN
  IF h.st # "ok" THEN Settle(h.st) ELSE
  [st |-> "Complete", amt |-> h.i - 1,
   req |-> [method |-> SubSeq(b, s0.i, m.i - 1),
            path |-> SubSeq(b, m.i + 1, p.i - 1),
            version |-> v.version,
            headers |-> h.headers]]

\* ------------------------------------------------------------------- state
VARIABLES
  wire,        \* everything the peer sends on this connection
  spos,        \* number of bytes of wire already read from the stream
  req_buf,     \* pending bytes of the Shared Buffer (BytesMut::chunk)
  cursor,      \* number of bytes the Shared Buffer has been advanced over
  pc,          \* "idle" | "request" | "body" | "draining" | "fault"
  req,         \* the parsed Request (httparse::Request) while one is held
  body_limit,  \* BodyReader::body_limit
  total_read,  \* BodyReader::total_read
  body_start,  \* cursor when the BodyReader was created
  req_start,   \* cursor when the connection loop began to await this request
  chunks,      \* stream reads of the connection loop since the last request
  partials,    \* decode calls answered Ok(None) since the last request
  delivered,   \* the bytes this BodyReader returned from read or passed over
               \* in consume, in the order of the calls
  ret          \* the last call: operation, argument, result

vars ==
  <<wire, spos, req_buf, cursor, pc, req, body_limit, total_read, body_start,
    req_start, chunks, partials, delivered, ret>>

\* how far BytesMut moved its cursor: the bytes that were pending (those
\* pulled from the stream included) and are pending no more
Advanced(before, pulled, after) == Len(before) + pulled - Len(after)

Ret(op, arg, val, n, data, sread, io) ==
  [op |-> op, arg |-> arg, val |-> val, n |-> n, data |-> data, sread |-> sread,
   io |-> io]

\* the destination sizes callers hand to read (10 is the documented example)
ReadSizes == {0, 1, 3, 10}

\* ------------------------------------------------------------- the stream
\* what one blocking Read::read on the stream can answer: an error, or n >= 1
\* of the bytes the peer has still to deliver, or 0 at end of data
StreamOutcomes ==
  LET avail == Len(wire) - spos IN
  {[ok |-> FALSE, n |-> 0]} \cup
  {[ok |-> TRUE, n |-> k] : k \in (IF avail = 0 THEN {0} ELSE 1..avail)}

\* what the stream answered: "err", "eof" (0 bytes) or "data"
IoOf(o) == IF ~o.ok THEN "err" ELSE IF o.n = 0 THEN "eof" ELSE "data"

\* BodyReader::read_more_data: append what the stream delivered to buf
read_more_data(buf, o) ==
  IF o.ok
    THEN [ok |-> TRUE, n |-> o.n, buf |-> buf \o SubSeq(wire, spos + 1, spos + o.n)]
    ELSE [ok |-> FALSE, n |-> 0, buf |-> buf]

\* ----------------------------------------------------------------- decode
\* decode that throws the bytes of an incomplete header block away
decode_skip_partial(buf) ==
  LET status == parse_with_uninit_headers(buf) IN
  IF status.st = "Error" THEN [val |-> "Err", len |-> 0, req |-> NoReq]
  ELSE IF status.st = "Partial" THEN [val |-> "None", len |-> Len(buf), req |-> NoReq]
  ELSE [val |-> "Some", len |-> status.amt, req |-> status.req]

\* decode that advances over everything buffered once the headers are complete
decode_clear_complete(buf) ==
  LET status == parse_with_uninit_headers(buf) IN
  IF status.st = "Error" THEN [val |-> "Err", len |-> 0, req |-> NoReq]
  ELSE IF status.st = "Partial" THEN [val |-> "None", len |-> 0, req |-> NoReq]
  ELSE [val |-> "Some", len |-> Len(buf), req |-> status.req]

\* decode that discards the malformed bytes before it reports them
decode_skip_error(buf) ==
  LET status == parse_with_uninit_headers(buf) IN
  IF status.st = "Error" THEN [val |-> "Err", len |-> Len(buf), req |-> NoReq]
  ELSE IF status.st = "Partial" THEN [val |-> "None", len |-> 0, req |-> NoReq]
  ELSE [val |-> "Some", len |-> status.amt, req |-> status.req]

\* decode that steps over one byte whenever it needs more input
decode_shift_partial(buf) ==
  LET status == parse_with_uninit_headers(buf) IN
  IF status.st = "Error" THEN [val |-> "Err", len |-> 0, req |-> NoReq]
  ELSE IF status.st = "Partial" THEN [val |-> "None", len |-> Min(1, Len(buf)), req |-> NoReq]
  ELSE [val |-> "Some", len |-> status.amt, req |-> status.req]

decode(buf) ==
  LET status == parse_with_uninit_headers(buf) IN
  IF status.st = "Error" THEN [val |-> "Err", len |-> 0, req |-> NoReq]
  ELSE IF status.st = "Partial" THEN [val |-> "None", len |-> 0, req |-> NoReq]
  ELSE [val |-> "Some", len |-> status.amt, req |-> status.req]

\* the connection loop reads a chunk from the stream into the Shared Buffer
ConnRead ==
  /\ pc = "idle"
  /\ \E n \in 1..(Len(wire) - spos) :
       /\ req_buf' = req_buf \o SubSeq(wire, spos + 1, spos + n)
       /\ spos' = spos + n
       /\ chunks' = Min(chunks + 1, MaxChunks)
       /\ ret' = Ret("conn_read", 0, "Ok", 0, <<>>, TRUE, "data")
  /\ UNCHANGED <<wire, cursor, pc, req, body_limit, total_read, body_start, req_start,
                 partials, delivered>>

Decode ==
  /\ pc = "idle"
  /\ LET d == decode(req_buf) IN
       /\ req_buf' = Drop(req_buf, d.len)
       /\ cursor' = cursor + Advanced(req_buf, 0, Drop(req_buf, d.len))
       /\ req' = d.req
       /\ pc' = IF d.val = "Some" THEN "request" ELSE "idle"
       /\ partials' = IF d.val = "None" THEN Min(partials + 1, MaxPartials) ELSE partials
       /\ ret' = Ret("decode", 0, d.val, d.len, <<>>, FALSE, "none")
  /\ UNCHANGED <<wire, spos, body_limit, total_read, body_start, req_start, chunks,
                 delivered>>

\* ---------------------------------------------------------------- Request
\* <usize as FromStr>::from_str: an optional "+", then one or more digits
RECURSIVE digits_value(_, _)
digits_value(ds, acc) ==
  IF ds = <<>> THEN acc ELSE digits_value(Tail(ds), acc * 10 + (Head(ds) - 48))

\* parse(..).unwrap_or(0): an unparsable value counts as 0
parse_usize_default(v) ==
  LET ds == IF v # <<>> /\ v[1] = 43 THEN Tail(v) ELSE v IN
  IF ds = <<>> \/ \E i \in 1..Len(ds) : ds[i] \notin 48..57
    THEN [ok |-> TRUE, len |-> 0]
    ELSE [ok |-> TRUE, len |-> digits_value(ds, 0)]

parse_usize(v) ==
  LET ds == IF v # <<>> /\ v[1] = 43 THEN Tail(v) ELSE v IN
  IF ds = <<>> \/ \E i \in 1..Len(ds) : ds[i] \notin 48..57
    THEN [ok |-> FALSE, len |-> 0]
    ELSE [ok |-> TRUE, len |-> digits_value(ds, 0)]

\* content_length without the break: the last matching header wins
RECURSIVE content_length_last(_, _)
content_length_last(headers, i) ==
  IF i > Len(headers) THEN [ok |-> TRUE, len |-> 0]
  ELSE LET rest == content_length_last(headers, i + 1) IN
       IF eq_ignore_ascii_case(headers[i].name, CONTENT_LENGTH)
            /\ ~(\E j \in (i + 1)..Len(headers) :
                   eq_ignore_ascii_case(headers[j].name, CONTENT_LENGTH))
         THEN parse_usize(headers[i].value)
         ELSE rest

\* Request::content_length: the loop over the headers from slot i on
RECURSIVE content_length_from(_, _)
content_length_from(headers, i) ==
  IF i > Len(headers) THEN [ok |-> TRUE, len |-> 0]
  ELSE IF eq_ignore_ascii_case(headers[i].name, CONTENT_LENGTH)
         THEN parse_usize(headers[i].value)
         ELSE content_length_from(headers, i + 1)

content_length(headers) == content_length_from(headers, 1)

\* Request::body; an unparsable content-length panics in content_length
Body ==
  /\ pc = "request"
  /\ LET cl == content_length(req.headers) IN
       IF cl.ok
         THEN /\ pc' = "body"
              /\ body_limit' = cl.len
              /\ total_read' = 0
              /\ body_start' = cursor
              /\ delivered' = <<>>
              /\ ret' = Ret("body", 0, "Ok", cl.len, <<>>, FALSE, "none")
         ELSE /\ pc' = "fault"
              /\ ret' = Ret("body", 0, "Panic", 0, <<>>, FALSE, "none")
              /\ UNCHANGED <<body_limit, total_read, body_start, delivered>>
  /\ UNCHANGED <<wire, spos, req_buf, cursor, req, req_start, chunks, partials>>

\* a Request whose drop advances over the buffered bytes of its body
DropRequest_drains ==
  /\ pc = "request"
  /\ LET cl == content_length(req.headers)
         k == IF cl.ok THEN Min(cl.len, Len(req_buf)) ELSE 0
     IN /\ req_buf' = Drop(req_buf, k)
        /\ cursor' = cursor + k
        /\ req_start' = cursor + k
  /\ pc' = "idle"
  /\ req' = NoReq
  /\ chunks' = 0
  /\ partials' = 0
  /\ ret' = Ret("drop_request", 0, "Ok", 0, <<>>, FALSE, "none")
  /\ UNCHANGED <<wire, spos, body_limit, total_read, body_start, delivered>>

\* a Request dropped without body(): Request has no Drop impl
DropRequest ==
  /\ pc = "request"
  /\ pc' = "idle"
  /\ req' = NoReq
  /\ req_start' = cursor
  /\ chunks' = 0
  /\ partials' = 0
  /\ ret' = Ret("drop_request", 0, "Ok", 0, <<>>, FALSE, "none")
  /\ UNCHANGED <<wire, spos, req_buf, cursor, body_limit, total_read, body_start,
                 delivered>>

\* ------------------------------------------------------------- BodyReader
\* read that caps the copy by the destination only, not by the body limit
read_uncapped(maxBytes, o) ==
  LET copy(b, pulled) ==
        LET n == Min(maxBytes, Len(b))
        IN [val |-> "Ok", n |-> n, data |-> Take(b, n), buf |-> Drop(b, n),
            total |-> total_read + n, pulled |-> pulled, sread |-> pulled > 0,
            io |-> IF pulled > 0 THEN IoOf(o) ELSE "none"]
      same(val, sread) ==
        [val |-> val, n |-> 0, data |-> <<>>, buf |-> req_buf,
         total |-> total_read, pulled |-> 0, sread |-> sread,
         io |-> IF sread THEN IoOf(o) ELSE "none"]
  IN
  IF total_read >= body_limit THEN same("Ok", FALSE)
  ELSE IF req_buf # <<>> THEN copy(req_buf, 0)
  ELSE LET m == read_more_data(req_buf, o) IN
       IF ~m.ok THEN same("Err", TRUE)
       ELSE IF m.n = 0 THEN same("Ok", TRUE)
       ELSE copy(m.buf, m.n)

\* read whose end-of-body test is total_read > body_limit
read_gt(maxBytes, o) ==
  LET copy(b, pulled) ==
        LET min_len == Min(maxBytes, body_limit - total_read)
            n == Min(min_len, Len(b))
        IN [val |-> "Ok", n |-> n, data |-> Take(b, n), buf |-> Drop(b, n),
            total |-> total_read + n, pulled |-> pulled, sread |-> pulled > 0,
            io |-> IF pulled > 0 THEN IoOf(o) ELSE "none"]
      same(val, sread) ==
        [val |-> val, n |-> 0, data |-> <<>>, buf |-> req_buf,
         total |-> total_read, pulled |-> 0, sread |-> sread,
         io |-> IF sread THEN IoOf(o) ELSE "none"]
  IN
  IF total_read > body_limit THEN same("Ok", FALSE)
  ELSE IF req_buf # <<>> THEN copy(req_buf, 0)
  ELSE LET m == read_more_data(req_buf, o) IN
       IF ~m.ok THEN same("Err", TRUE)
       ELSE IF m.n = 0 THEN same("Ok", TRUE)
       ELSE copy(m.buf, m.n)

\* read that reports the end of the stream inside a body as an error
read_eof_is_error(maxBytes, o) ==
  LET copy(b, pulled) ==
        LET min_len == Min(maxBytes, body_limit - total_read)
            n == Min(min_len, Len(b))
        IN [val |-> "Ok", n |-> n, data |-> Take(b, n), buf |-> Drop(b, n),
            total |-> total_read + n, pulled |-> pulled, sread |-> pulled > 0,
            io |-> IF pulled > 0 THEN IoOf(o) ELSE "none"]
      same(val, sread) ==
        [val |-> val, n |-> 0, data |-> <<>>, buf |-> req_buf,
         total |-> total_read, pulled |-> 0, sread |-> sread,
         io |-> IF sread THEN IoOf(o) ELSE "none"]
  IN
  IF total_read >= body_limit THEN same("Ok", FALSE)
  ELSE IF req_buf # <<>> THEN copy(req_buf, 0)
  ELSE LET m == read_more_data(req_buf, o) IN
       IF ~m.ok THEN same("Err", TRUE)
       ELSE IF m.n = 0 THEN same("Err", TRUE)
       ELSE copy(m.buf, m.n)

\* read that answers Ok(0) when the stream read fails
read_swallow_err(maxBytes, o) ==
  LET copy(b, pulled) ==
        LET min_len == Min(maxBytes, body_limit - total_read)
            n == Min(min_len, Len(b))
        IN [val |-> "Ok", n |-> n, data |-> Take(b, n), buf |-> Drop(b, n),
            total |-> total_read + n, pulled |-> pulled, sread |-> pulled > 0,
            io |-> IF pulled > 0 THEN IoOf(o) ELSE "none"]
      same(val, sread) ==
        [val |-> val, n |-> 0, data |-> <<>>, buf |-> req_buf,
         total |-> total_read, pulled |-> 0, sread |-> sread,
         io |-> IF sread THEN IoOf(o) ELSE "none"]
  IN
  IF total_read >= body_limit THEN same("Ok", FALSE)
  ELSE IF req_buf # <<>> THEN copy(req_buf, 0)
  ELSE LET m == read_more_data(req_buf, o) IN
       IF ~m.ok THEN same("Ok", TRUE)
       ELSE IF m.n = 0 THEN same("Ok", TRUE)
       ELSE copy(m.buf, m.n)

\* read that copies and advances but forgets total_read += n
read_no_count(maxBytes, o) ==
  LET copy(b, pulled) ==
        LET min_len == Min(maxBytes, body_limit - total_read)
            n == Min(min_len, Len(b))
        IN [val |-> "Ok", n |-> n, data |-> Take(b, n), buf |-> Drop(b, n),
            total |-> total_read, pulled |-> pulled, sread |-> pulled > 0,
            io |-> IF pulled > 0 THEN IoOf(o) ELSE "none"]
      same(val, sread) ==
        [val |-> val, n |-> 0, data |-> <<>>, buf |-> req_buf,
         total |-> total_read, pulled |-> 0, sread |-> sread,
         io |-> IF sread THEN IoOf(o) ELSE "none"]
  IN
  IF total_read >= body_limit THEN same("Ok", FALSE)
  ELSE IF req_buf # <<>> THEN copy(req_buf, 0)
  ELSE LET m == read_more_data(req_buf, o) IN
       IF ~m.ok THEN same("Err", TRUE)
       ELSE IF m.n = 0 THEN same("Ok", TRUE)
       ELSE copy(m.buf, m.n)

\* read that copies from the pending bytes without advancing over them
read_no_advance(maxBytes, o) ==
  LET copy(b, pulled) ==
        LET min_len == Min(maxBytes, body_limit - total_read)
            n == Min(min_len, Len(b))
        IN [val |-> "Ok", n |-> n, data |-> Take(b, n), buf |-> b,
            total |-> total_read + n, pulled |-> pulled, sread |-> pulled > 0,
            io |-> IF pulled > 0 THEN IoOf(o) ELSE "none"]
      same(val, sread) ==
        [val |-> val, n |-> 0, data |-> <<>>, buf |-> req_buf,
         total |-> total_read, pulled |-> 0, sread |-> sread,
         io |-> IF sread THEN IoOf(o) ELSE "none"]
  IN
  IF total_read >= body_limit THEN same("Ok", FALSE)
  ELSE IF req_buf # <<>> THEN copy(req_buf, 0)
  ELSE LET m == read_more_data(req_buf, o) IN
       IF ~m.ok THEN same("Err", TRUE)
       ELSE IF m.n = 0 THEN same("Ok", TRUE)
       ELSE copy(m.buf, m.n)

\* BodyReader::read with a destination of maxBytes bytes, o the answer of the
\* stream if it is asked
read(maxBytes, o) ==
  LET copy(b, pulled) ==
        LET min_len == Min(maxBytes, body_limit - total_read)
            n == Min(min_len, Len(b))
        IN [val |-> "Ok", n |-> n, data |-> Take(b, n), buf |-> Drop(b, n),
            total |-> total_read + n, pulled |-> pulled, sread |-> pulled > 0,
            io |-> IF pulled > 0 THEN IoOf(o) ELSE "none"]
      same(val, sread) ==
        [val |-> val, n |-> 0, data |-> <<>>, buf |-> req_buf,
         total |-> total_read, pulled |-> 0, sread |-> sread,
         io |-> IF sread THEN IoOf(o) ELSE "none"]
  IN
  IF total_read >= body_limit THEN same("Ok", FALSE)
  ELSE IF req_buf # <<>> THEN copy(req_buf, 0)
  ELSE LET m == read_more_data(req_buf, o) IN
       IF ~m.ok THEN same("Err", TRUE)
       ELSE IF m.n = 0 THEN same("Ok", TRUE)
       ELSE copy(m.buf, m.n)

\* fill_buf whose view is everything pending, beyond the body limit too
fill_buf_uncapped(o) ==
  LET remain == body_limit - total_read
      view(b, pulled, sread) ==
        [val |-> "Ok", view |-> b, buf |-> b,
         pulled |-> pulled, sread |-> sread,
         io |-> IF sread THEN IoOf(o) ELSE "none"]
  IN
  IF remain = 0
    THEN [val |-> "Ok", view |-> <<>>, buf |-> req_buf, pulled |-> 0, sread |-> FALSE,
          io |-> "none"]
  ELSE IF req_buf = <<>> THEN
         LET m == read_more_data(req_buf, o) IN
         IF ~m.ok
           THEN [val |-> "Err", view |-> <<>>, buf |-> req_buf, pulled |-> 0, sread |-> TRUE,
                 io |-> IoOf(o)]
           ELSE view(m.buf, m.n, TRUE)
  ELSE view(req_buf, 0, FALSE)

\* fill_buf that never asks the stream: an empty buffer gives an empty view
fill_buf_no_pull(o) ==
  LET remain == body_limit - total_read IN
  [val |-> "Ok", view |-> Take(req_buf, Min(Len(req_buf), remain)), buf |-> req_buf,
   pulled |-> 0, sread |-> FALSE, io |-> "none"]

\* BodyReader::fill_buf
fill_buf(o) ==
  LET remain == body_limit - total_read
      view(b, pulled, sread) ==
        [val |-> "Ok", view |-> Take(b, Min(Len(b), remain)), buf |-> b,
         pulled |-> pulled, sread |-> sread,
         io |-> IF sread THEN IoOf(o) ELSE "none"]
  IN
  IF remain = 0
    THEN [val |-> "Ok", view |-> <<>>, buf |-> req_buf, pulled |-> 0, sread |-> FALSE,
          io |-> "none"]
  ELSE IF req_buf = <<>> THEN
         LET m == read_more_data(req_buf, o) IN
         IF ~m.ok
           THEN [val |-> "Err", view |-> <<>>, buf |-> req_buf, pulled |-> 0, sread |-> TRUE,
                 io |-> IoOf(o)]
           ELSE view(m.buf, m.n, TRUE)
  ELSE view(req_buf, 0, FALSE)

\* consume that counts the bytes but forgets req_buf.advance
consume_no_advance(buf, amt) ==
  IF ~(amt <= body_limit - total_read) \/ ~(amt <= Len(buf))
    THEN [val |-> "Panic", buf |-> buf, total |-> total_read, n |-> 0]
    ELSE [val |-> "Ok", buf |-> buf, total |-> total_read + amt, n |-> amt]

\* consume without the assertion on the remaining allowance
consume_unchecked(buf, amt) ==
  IF ~(amt <= Len(buf))
    THEN [val |-> "Panic", buf |-> buf, total |-> total_read, n |-> 0]
    ELSE [val |-> "Ok", buf |-> Drop(buf, amt), total |-> total_read + amt, n |-> amt]

\* consume without the assertion on the pending bytes: total_read is counted
\* before BytesMut::advance panics
consume_late_check(buf, amt) ==
  IF ~(amt <= body_limit - total_read)
    THEN [val |-> "Panic", buf |-> buf, total |-> total_read, n |-> 0]
  ELSE IF ~(amt <= Len(buf))
    THEN [val |-> "Panic", buf |-> buf, total |-> total_read + amt, n |-> 0]
    ELSE [val |-> "Ok", buf |-> Drop(buf, amt), total |-> total_read + amt, n |-> amt]

\* consume that advances req_buf but forgets total_read += amt
consume_no_count(buf, amt) ==
  IF ~(amt <= body_limit - total_read) \/ ~(amt <= Len(buf))
    THEN [val |-> "Panic", buf |-> buf, total |-> total_read, n |-> 0]
    ELSE [val |-> "Ok", buf |-> Drop(buf, amt), total |-> total_read, n |-> amt]

\* BodyReader::consume on the buffer buf
consume(buf, amt) ==
  IF ~(amt <= body_limit - total_read) \/ ~(amt <= Len(buf))
    THEN [val |-> "Panic", buf |-> buf, total |-> total_read, n |-> 0]
    ELSE [val |-> "Ok", buf |-> Drop(buf, amt), total |-> total_read + amt, n |-> amt]

Read ==
  /\ pc = "body"
  /\ \E maxBytes \in ReadSizes, o \in StreamOutcomes :
       LET r == read(maxBytes, o) IN
         /\ req_buf' = r.buf
         /\ total_read' = r.total
         /\ spos' = spos + r.pulled
         /\ cursor' = cursor + Advanced(req_buf, r.pulled, r.buf)
         /\ delivered' = delivered \o r.data
         /\ ret' = Ret("read", maxBytes, r.val, r.n, r.data, r.sread, r.io)
  /\ UNCHANGED <<wire, pc, req, body_limit, body_start, req_start, chunks, partials>>

FillBuf ==
  /\ pc = "body"
  /\ \E o \in StreamOutcomes :
       LET f == fill_buf(o) IN
         /\ req_buf' = f.buf
         /\ spos' = spos + f.pulled
         /\ ret' = Ret("fill_buf", 0, f.val, Len(f.view), f.view, f.sread, f.io)
  /\ UNCHANGED <<wire, cursor, pc, req, body_limit, total_read, body_start,
                 req_start, chunks, partials, delivered>>

Consume ==
  /\ pc = "body"
  /\ \E amt \in 0..MaxAmt :
       LET c == consume(req_buf, amt) IN
         /\ req_buf' = c.buf
         /\ total_read' = c.total
         /\ cursor' = cursor + Advanced(req_buf, 0, c.buf)
         /\ pc' = IF c.val = "Panic" THEN "fault" ELSE "body"
         /\ delivered' = delivered \o Take(req_buf, Advanced(req_buf, 0, c.buf))
         /\ ret' = Ret("consume", amt, c.val, c.n, <<>>, FALSE, "none")
  /\ UNCHANGED <<wire, spos, req, body_limit, body_start, req_start, chunks, partials>>

\* the BodyReader goes out of scope: BodyReader::drop is entered
DropBody ==
  /\ pc = "body"
  /\ pc' = "draining"
  /\ ret' = Ret("drop", 0, "Ok", 0, <<>>, FALSE, "none")
  /\ UNCHANGED <<wire, spos, req_buf, cursor, req, body_limit, total_read,
                 body_start, req_start, chunks, partials, delivered>>

\* one iteration of the loop of BodyReader::drop: fill_buf, then break on an
\* error or on an empty view, else consume the whole view
DrainStep ==
  /\ pc = "draining"
  /\ \E o \in StreamOutcomes :
       LET f == fill_buf(o)
           n == Len(f.view)
           c == consume(f.buf, n)
       IN
       IF f.val = "Err" \/ n = 0
         THEN /\ pc' = "idle"
              /\ req_buf' = f.buf
              /\ spos' = spos + f.pulled
              /\ req' = NoReq
              /\ req_start' = cursor
              /\ chunks' = 0
              /\ partials' = 0
              /\ ret' = Ret("drained", 0, "Ok", 0, <<>>, f.sread, f.io)
              /\ UNCHANGED <<cursor, total_read, delivered>>
         ELSE /\ pc' = IF c.val = "Panic" THEN "fault" ELSE "draining"
              /\ req_buf' = c.buf
              /\ spos' = spos + f.pulled
              /\ total_read' = c.total
              /\ cursor' = cursor + Advanced(f.buf, 0, c.buf)
              /\ delivered' = delivered \o Take(f.buf, Advanced(f.buf, 0, c.buf))
              /\ ret' = Ret("drain", n, c.val, c.n, f.view, f.sread, f.io)
              /\ UNCHANGED <<req, req_start, chunks, partials>>
  /\ UNCHANGED <<wire, body_limit, body_start>>

\* ---------------------------------------------------------- specification
Init ==
  /\ wire \in Wires
  /\ spos = 0
  /\ req_buf = <<>>
  /\ cursor = 0
  /\ pc = "idle"
  /\ req = NoReq
  /\ body_limit = 0
  /\ total_read = 0
  /\ body_start = 0
  /\ req_start = 0
  /\ chunks = 0
  /\ partials = 0
  /\ delivered = <<>>
  /\ ret = Ret("none", 0, "Ok", 0, <<>>, FALSE, "none")

Next ==
  \/ ConnRead
  \/ Decode
  \/ Body
  \/ DropRequest
  \/ Read
  \/ FillBuf
  \/ Consume
  \/ DropBody
  \/ DrainStep

Spec == Init /\ [][Next]_vars

\* the thread that drops the BodyReader keeps running its drop: every stream
\* read of the drain loop returns, and the loop goes on to its next iteration
FairSpec == Spec /\ WF_vars(DrainStep)

\* the Shared Buffer is the window of the wire between cursor and spos
BufferIsWindow ==
  /\ spos \in 0..Len(wire)
  /\ cursor + Len(req_buf) = spos
  /\ req_buf = SubSeq(wire, cursor + 1, spos)
  /\ pc \in {"idle", "request", "body", "draining", "fault"}

\* ------------------------------------------------------------------ claims
\* "hello"
HelloBody == <<104,101,108,108,111>>

\* C1, as stated: once the Body Reader has been released, the buffer cursor
\* has been advanced over exactly body_limit bytes since the reader was created.
C1_ExactlyLDrained ==
  ret.op = "drained" => cursor = body_start + body_limit

\* C1, amended: once the Body Reader has been released, the cursor has been
\* advanced over exactly total_read bytes since the reader was created, and
\* total_read = body_limit (the pending bytes then start right after the body)
\* unless the drain loop was ended by a stream read that reported end of data
\* or failed, in which case nothing is pending in the buffer.
C1_DrainOnRelease ==
  ret.op = "drained" =>
    /\ cursor = body_start + total_read
    /\ req_buf = SubSeq(wire, body_start + total_read + 1, spos)
    /\ \/ total_read = body_limit
       \/ /\ total_read < body_limit
          /\ req_buf = <<>>
          /\ ret.sread

\* a reader of a 5 byte body released with the next request already pending
C1_Witness ==
  /\ ret.op = "drained"
  /\ body_limit = 5
  /\ cursor = body_start + 5
  /\ req_buf # <<>>
  /\ req_buf = Take(NextReq, Len(req_buf))

\* C2: total_read <= body_limit in every reachable state, whatever read,
\* fill_buf, consume (its assertions met or not) and the drain have done.
C2_TotalWithinLimit == total_read <= body_limit

\* a consume beyond the remaining allowance has been attempted
C2_Witness ==
  /\ ret.op = "consume"
  /\ ret.val = "Panic"
  /\ ret.arg > body_limit - total_read
  /\ ret.arg <= Len(req_buf)

\* C3: a decode on pending bytes the Header Parser finds incomplete returns
\* Ok(None) and leaves cursor, pending bytes and stream as they were.
C3_IncompleteUntouched ==
  [][(pc = "idle" /\ ret'.op = "decode"
        /\ parse_with_uninit_headers(req_buf).st = "Partial")
      => /\ ret'.val = "None"
         /\ req_buf' = req_buf
         /\ cursor' = cursor
         /\ spos' = spos
         /\ pc' = "idle"]_vars

\* decode has answered Ok(None) on a non-empty pending region
C3_Witness ==
  /\ ret.op = "decode"
  /\ ret.val = "None"
  /\ req_buf # <<>>
  /\ partials >= 1

\* C4: a decode on pending bytes the Header Parser finds complete at offset K
\* advances the cursor by exactly K; the pending bytes after K stay and the
\* stream is not read.
C4_CompleteAdvancesK ==
  [][(pc = "idle" /\ ret'.op = "decode"
        /\ parse_with_uninit_headers(req_buf).st = "Complete")
      => LET K == parse_with_uninit_headers(req_buf).amt IN
         /\ ret'.val = "Some"
         /\ cursor' = cursor + K
         /\ req_buf' = SubSeq(req_buf, K + 1, Len(req_buf))
         /\ spos' = spos
         /\ wire' = wire
         /\ pc' = "request"]_vars

\* a request was decoded with body bytes pending behind its headers
C4_Witness ==
  /\ ret.op = "decode"
  /\ ret.val = "Some"
  /\ pc = "request"
  /\ req_buf # <<>>
  /\ ret.n > 0

\* C5: a decode on pending bytes the Header Parser rejects returns an error
\* and consumes nothing: cursor, pending bytes and stream are as before.
C5_MalformedConsumesNothing ==
  [][(pc = "idle" /\ ret'.op = "decode"
        /\ parse_with_uninit_headers(req_buf).st = "Error")
      => /\ ret'.val = "Err"
         /\ req_buf' = req_buf
         /\ cursor' = cursor
         /\ spos' = spos
         /\ pc' = "idle"]_vars

\* decode has reported a malformed request
C5_Witness ==
  /\ ret.op = "decode"
  /\ ret.val = "Err"
  /\ req_buf # <<>>

\* C6: whatever chunks the bytes of a request arrived in and whatever decode
\* calls were answered Ok(None) in between, a decode that succeeds yields the
\* method, path, version, headers and consumed offset of one decode on the
\* whole byte sequence from the request's first byte on; and while fewer
\* bytes than that offset have arrived decode answers Ok(None).
C6_ChunkedEqualsOneShot ==
  [][(pc = "idle" /\ ret'.op = "decode")
      => LET whole == decode(SubSeq(wire, req_start + 1, Len(wire))) IN
         /\ ret'.val = "Some"
              => /\ whole.val = "Some"
                 /\ req' = whole.req
                 /\ cursor' = req_start + whole.len
         /\ whole.val = "Some"
              => /\ spos - req_start >= whole.len => ret'.val = "Some"
                 /\ spos - req_start < whole.len => ret'.val = "None"]_vars

\* a request with headers decoded after two or more chunks and at least one
\* Ok(None)
C6_Witness ==
  /\ pc = "request"
  /\ ret.op = "decode"
  /\ chunks >= 2
  /\ partials >= 1
  /\ req.headers # <<>>

\* C7: read below the limit with bytes pending copies out the first
\* n = min(maxBytes, body_limit - total_read, pending) bytes, advances the
\* cursor by n, adds n to total_read and returns n; on the buffered body
\* "hello" of a Content-Length 5 request a read of 10 returns 5 and "hello",
\* and the read after it returns 0.
C7_ReadCopiesMin ==
  [][(pc = "body" /\ ret'.op = "read")
      => /\ (total_read < body_limit /\ req_buf # <<>>)
              => LET n == Min(Min(ret'.arg, body_limit - total_read), Len(req_buf)) IN
                 /\ ret'.val = "Ok"
                 /\ ret'.n = n
                 /\ ret'.data = SubSeq(req_buf, 1, n)
                 /\ req_buf' = SubSeq(req_buf, n + 1, Len(req_buf))
                 /\ cursor' = cursor + n
                 /\ total_read' = total_read + n
                 /\ spos' = spos
         /\ (body_limit = 5 /\ total_read = 0 /\ ret'.arg = 10
               /\ Len(req_buf) >= 5 /\ SubSeq(req_buf, 1, 5) = HelloBody)
              => (ret'.n = 5 /\ ret'.data = HelloBody)
         /\ (ret.op = "read" /\ ret.arg = 10 /\ ret.n = 5 /\ body_limit = 5)
              => ret'.n = 0]_vars

\* the read of the example: 10 asked, 5 returned, "hello"
C7_Witness ==
  /\ ret.op = "read"
  /\ ret.arg = 10
  /\ ret.n = 5
  /\ ret.data = HelloBody
  /\ total_read = 5

\* C8: once total_read = body_limit, read returns 0 and fill_buf an empty
\* view without a stream read or a change of the buffer, and the drain of a
\* released reader ends at once, with no byte drained and no stream read.
C8_ExhaustedIsInert ==
  [][(pc \in {"body", "draining"} /\ total_read = body_limit
        /\ ret'.op \in {"read", "fill_buf", "drain", "drained"})
      => /\ ret'.op \in {"read", "fill_buf", "drained"}
         /\ ret'.val = "Ok"
         /\ ret'.n = 0
         /\ ret'.data = <<>>
         /\ ~ret'.sread
         /\ req_buf' = req_buf
         /\ cursor' = cursor
         /\ spos' = spos
         /\ total_read' = total_read]_vars

\* a read answered 0 at the limit of a non-empty body while the stream still
\* had bytes to give
C8_Witness ==
  /\ ret.op = "read"
  /\ ret.n = 0
  /\ total_read = body_limit
  /\ body_limit > 0
  /\ req_buf = <<>>
  /\ spos < Len(wire)

\* C9: consume(amt) with amt above the remaining allowance or above the
\* pending bytes panics, with total_read, cursor and pending bytes unchanged.
C9_ConsumeFaults ==
  [][(pc = "body" /\ ret'.op = "consume"
        /\ (ret'.arg > body_limit - total_read \/ ret'.arg > Len(req_buf)))
      => /\ pc' = "fault"
         /\ ret'.val = "Panic"
         /\ total_read' = total_read
         /\ cursor' = cursor
         /\ req_buf' = req_buf]_vars

\* a consume within the allowance but beyond the pending bytes has panicked
C9_Witness ==
  /\ pc = "fault"
  /\ ret.op = "consume"
  /\ ret.arg <= body_limit - total_read
  /\ ret.arg > Len(req_buf)

\* the decimal value of a digit string, most significant digit first, with
\* or without a "+" before the digits
RECURSIVE DecimalValue(_)
DecimalValue(v) ==
  IF v = <<>> \/ v = <<43>> THEN 0
  ELSE 10 * DecimalValue(SubSeq(v, 1, Len(v) - 1)) + (v[Len(v)] - 48)

NamesContentLength(h) ==
  /\ Len(h.name) = 14
  /\ \A k \in 1..14 :
       h.name[k] \in {CONTENT_LENGTH[k],
                      IF CONTENT_LENGTH[k] \in 97..122 THEN CONTENT_LENGTH[k] - 32
                      ELSE CONTENT_LENGTH[k]}

\* C10: the body_limit of the Body Reader that Request::body produced is the
\* integer value of the first header named content-length (ASCII case
\* ignored), and 0 when no header has that name.
C10_LimitIsFirstContentLength ==
  pc \in {"body", "draining"} =>
    \/ /\ \A i \in 1..Len(req.headers) : ~NamesContentLength(req.headers[i])
       /\ body_limit = 0
    \/ \E i \in 1..Len(req.headers) :
         /\ NamesContentLength(req.headers[i])
         /\ \A j \in 1..(i - 1) : ~NamesContentLength(req.headers[j])
         /\ body_limit = DecimalValue(req.headers[i].value)

\* a reader made from a request with two content-length headers of different
\* case and value, behind a header whose name is one letter short
C10_Witness ==
  /\ pc = "body"
  /\ Len(req.headers) = 3
  /\ ~NamesContentLength(req.headers[1])
  /\ NamesContentLength(req.headers[2])
  /\ NamesContentLength(req.headers[3])
  /\ req.headers[2].value # req.headers[3].value
  /\ body_limit = 2
\* a header value that denotes a non-negative integer: digits, with or
\* without a "+" before them
DenotesNonNegative(v) ==
  LET ds == IF Len(v) >= 1 /\ v[1] = 43 THEN SubSeq(v, 2, Len(v)) ELSE v IN
  /\ Len(ds) >= 1
  /\ \A k \in 1..Len(ds) : ds[k] >= 48 /\ ds[k] <= 57

\* the first header named content-length is there and its value is no integer
BadContentLength(r) ==
  \E i \in 1..Len(r.headers) :
    /\ NamesContentLength(r.headers[i])
    /\ \A j \in 1..(i - 1) : ~NamesContentLength(r.headers[j])
    /\ ~DenotesNonNegative(r.headers[i].value)

\* C11: body() on a request whose content-length header (the first one, the
\* one content_length finds) has a value that is no non-negative integer
\* panics: no Body Reader exists for such a request, whatever its limit, and
\* cursor, pending bytes and stream are as before the call.
C11_BadLengthFaults ==
  [][/\ (pc = "request" /\ ret'.op = "body" /\ BadContentLength(req))
          => /\ pc' = "fault"
             /\ ret'.val = "Panic"
             /\ req_buf' = req_buf
             /\ cursor' = cursor
             /\ spos' = spos
     /\ pc' \in {"body", "draining"} => ~BadContentLength(req')]_vars

\* body() has panicked on "Content-Length: 1x" with the body byte pending
C11_Witness ==
  /\ pc = "fault"
  /\ ret.op = "body"
  /\ ret.val = "Panic"
  /\ BadContentLength(req)
  /\ req_buf # <<>>

\* C12: read below the limit, with nothing pending and the stream at its
\* end (the stream read answers 0), returns Ok(0), not an error, and leaves
\* total_read, cursor and pending bytes as they were.
C12_TruncatedBodyIsEof ==
  [][(pc = "body" /\ ret'.op = "read" /\ total_read < body_limit
        /\ req_buf = <<>> /\ ret'.io = "eof")
      => /\ ret'.val = "Ok"
         /\ ret'.n = 0
         /\ ret'.data = <<>>
         /\ total_read' = total_read
         /\ cursor' = cursor
         /\ req_buf' = req_buf
         /\ pc' = "body"]_vars

\* a read of a body cut short has answered 0 after 2 of its 4 bytes
C12_Witness ==
  /\ pc = "body"
  /\ ret.op = "read"
  /\ ret.io = "eof"
  /\ ret.val = "Ok"
  /\ ret.n = 0
  /\ body_limit = 4
  /\ total_read = 2

\* C13, as stated: a drain that ended on a failed stream read gives its
\* caller an error to see, so that it differs from a drain that was completed
\* or that met the end of data.
C13_DrainErrorSurfaced ==
  (ret.op = "drained" /\ ret.io = "err") => ret.val = "Err"

\* C14: a Request dropped without body() drains nothing: the cursor stays at
\* the first body byte (the offset where the headers ended), pending bytes
\* and stream are untouched, so the next decode starts at the body bytes.
C14_DroppedRequestDrainsNothing ==
  [][(pc = "request" /\ ret'.op = "drop_request")
      => /\ req_buf' = req_buf
         /\ cursor' = cursor
         /\ spos' = spos
         /\ pc' = "idle"
         /\ cursor' = req_start + decode(SubSeq(wire, req_start + 1, Len(wire))).len
         /\ req_buf' = SubSeq(wire, cursor' + 1, spos')
         /\ req_start' = cursor']_vars

\* the request with the body "hello" was dropped and "hello" is what is
\* pending first
C14_Witness ==
  /\ pc = "idle"
  /\ ret.op = "drop_request"
  /\ Len(req_buf) >= 5
  /\ SubSeq(req_buf, 1, 5) = HelloBody
  /\ req_start = cursor

\* C15: fill_buf consumes nothing: total_read and cursor stay; the pending
\* bytes stay, or were none with allowance left and are now what the stream
\* just delivered; the view of an Ok answer is the first
\* min(body_limit - total_read, pending) pending bytes, and it is empty only
\* if the allowance is 0 or the stream read delivered 0 bytes.
C15_FillBufPeeks ==
  [][(pc = "body" /\ ret'.op = "fill_buf")
      => LET remain == body_limit - total_read IN
         /\ total_read' = total_read
         /\ cursor' = cursor
         /\ \/ req_buf' = req_buf /\ spos' = spos
            \/ /\ req_buf = <<>>
               /\ remain > 0
               /\ req_buf' = SubSeq(wire, spos + 1, spos')
         /\ ret'.val = "Ok"
              => /\ ret'.data = SubSeq(req_buf', 1, Min(remain, Len(req_buf')))
                 /\ ret'.n = Len(ret'.data)
                 /\ ret'.data = <<>> => (remain = 0 \/ ret'.io = "eof")]_vars

\* fill_buf pulled the rest of the body together with bytes of the next
\* request and showed the body bytes only
C15_Witness ==
  /\ pc = "body"
  /\ ret.op = "fill_buf"
  /\ ret.io = "data"
  /\ ret.n = body_limit - total_read
  /\ ret.n >= 1
  /\ Len(req_buf) > ret.n

\* C16, as stated: when the drain loop has finished, total_read = body_limit
\* or the stream has reported end of data, and no byte of the current body
\* is pending in the Shared Buffer.
C16_EndsExhausted ==
  ret.op = "drained" =>
    /\ total_read = body_limit \/ ret.io = "eof"
    /\ total_read < body_limit => req_buf = <<>>

\* C16, amended: when the drain loop has finished, total_read = body_limit,
\* or the stream has reported end of data, or a stream read has failed; in
\* each case no byte of the current body is pending in the Shared Buffer.
C16_EndsExhaustedOrFailed ==
  ret.op = "drained" =>
    /\ total_read = body_limit \/ ret.io \in {"eof", "err"}
    /\ total_read < body_limit => req_buf = <<>>
    /\ pc = "idle"

\* the drain of a body cut short passed over the 2 bytes that came and ended
\* on the end of data
C16_Witness ==
  /\ ret.op = "drained"
  /\ ret.io = "eof"
  /\ body_limit = 4
  /\ total_read = 2
  /\ delivered = <<97, 98>>

\* C17: every iteration of the drain loop that does not leave the loop adds
\* at least 1 to total_read and stays within body_limit, no iteration trips
\* an assertion of consume, and (every stream read returning) a drain that
\* has begun ends.
C17_DrainTerminates ==
  /\ [][pc = "draining"
          => /\ pc' # "fault"
             /\ pc' = "draining"
                  => /\ total_read' >= total_read + 1
                     /\ total_read' <= body_limit
                     /\ ret'.val = "Ok"]_vars
  /\ (pc = "draining") ~> (pc = "idle" /\ ret.op = "drained")

\* an iteration of the drain loop that pulled bytes from the stream, passed
\* over them and left more of the body to drain
C17_Witness ==
  /\ pc = "draining"
  /\ ret.op = "drain"
  /\ ret.io = "data"
  /\ ret.n >= 1
  /\ total_read < body_limit

\* C18: a stream read that fails inside read or fill_buf makes that call
\* return the error, with total_read, cursor, pending bytes and stream
\* position as they were before the call.
C18_StreamErrorPropagates ==
  [][(pc = "body" /\ ret'.op \in {"read", "fill_buf"} /\ ret'.io = "err")
      => /\ ret'.val = "Err"
         /\ ret'.n = 0
         /\ ret'.data = <<>>
         /\ total_read' = total_read
         /\ cursor' = cursor
         /\ req_buf' = req_buf
         /\ spos' = spos
         /\ delivered' = delivered
         /\ pc' = "body"]_vars

\* a read in the middle of a body has returned the stream's error
C18_Witness ==
  /\ pc = "body"
  /\ ret.op = "read"
  /\ ret.io = "err"
  /\ ret.val = "Err"
  /\ total_read > 0
  /\ total_read < body_limit

\* a Body Reader exists, is being drained, has just been drained, or has
\* panicked in consume
ReaderState ==
  \/ pc \in {"body", "draining"}
  \/ pc = "fault" /\ ret.op \in {"consume", "drain"}
  \/ ret.op = "drained"

\* C19: in every state of a Body Reader the cursor has been advanced by
\* exactly total_read since the reader was created, by no more than
\* body_limit, and all bytes pulled from the stream beyond that point are
\* pending, in their order.
C19_CursorAdvanceIsTotalRead ==
  ReaderState =>
    /\ cursor = body_start + total_read
    /\ cursor <= body_start + body_limit
    /\ req_buf = SubSeq(wire, body_start + total_read + 1, spos)

\* the whole 5 byte body was read and the bytes of the next request that
\* came with it are pending
C19_Witness ==
  /\ pc = "body"
  /\ ret.op = "read"
  /\ ret.io = "data"
  /\ body_limit = 5
  /\ total_read = 5
  /\ req_buf # <<>>
  /\ req_buf = SubSeq(NextReq, 1, Len(req_buf))

\* C20: the bytes returned by read and passed over by consume, in the order
\* of the calls, are the first total_read bytes that follow the header in
\* the peer's byte sequence; a view shown by fill_buf is a prefix of what
\* follows them, and the pending bytes continue the sequence without a gap.
C20_InOrderExactlyOnce ==
  ReaderState =>
    /\ Len(delivered) = total_read
    /\ delivered = SubSeq(wire, body_start + 1, body_start + total_read)
    /\ req_buf = SubSeq(wire, body_start + Len(delivered) + 1, spos)
    /\ ret.op = "fill_buf"
         => ret.data = SubSeq(wire, body_start + total_read + 1,
                              body_start + total_read + ret.n)

\* the five bytes of "hello" were delivered over several calls, the last of
\* them a read of one byte
C20_Witness ==
  /\ pc = "body"
  /\ ret.op = "read"
  /\ ret.n = 1
  /\ total_read = 5
  /\ delivered = HelloBody
====
